---- MODULE Spec2Model ----
(***************************************************************************)
(* Model of the Financial Document Analyzer HTTP service (src/main.py):    *)
(* the POST /analyze handler with its temporary file, the run_crew         *)
(* pipeline call, the two exception handlers, and GET / and GET /health,   *)
(* all served by one asyncio event loop.                                   *)
(*                                                                         *)
(* Python strings are sequences of one-character strings where the code    *)
(* inspects them (file names, queries) and sequences of text chunks where  *)
(* the code only concatenates them (messages, paths).                      *)
(***************************************************************************)
EXTENDS Integers, Sequences, FiniteSets, TLC

\* ---------------------------------------------------------------- bounds
NumRequests == 2
MaxContentLen == 1
MaxQueryLen == 3

Requests == 1..NumRequests
ContentSizes == 0..MaxContentLen

\* ------------------------------------------------------------- strings
Whitespace == {" ", "\n"}
QueryChars == {" ", "x"}

DefaultQuery ==
  <<"A","n","a","l","y","z","e"," ","t","h","i","s"," ","f","i","n","a","n",
    "c","i","a","l"," ","d","o","c","u","m","e","n","t"," ","f","o","r"," ",
    "i","n","v","e","s","t","m","e","n","t"," ","i","n","s","i","g","h","t",
    "s">>

\* str.lower() on the characters that occur in the modelled file names
LowerChar(c) ==
  CASE c = "A" -> "a"
    [] c = "P" -> "p"
    [] c = "D" -> "d"
    [] c = "F" -> "f"
    [] OTHER -> c

Lower(s) == [i \in 1..Len(s) |-> LowerChar(s[i])]

EndsWith(s, suffix) ==
  /\ Len(s) >= Len(suffix)
  /\ SubSeq(s, Len(s) - Len(suffix) + 1, Len(s)) = suffix

RECURSIVE LStrip(_)
LStrip(s) ==
  IF s = <<>> THEN <<>>
  ELSE IF Head(s) \in Whitespace THEN LStrip(Tail(s)) ELSE s

RECURSIVE RStrip(_)
RStrip(s) ==
  IF s = <<>> THEN <<>>
  ELSE IF s[Len(s)] \in Whitespace THEN RStrip(SubSeq(s, 1, Len(s) - 1)) ELSE s

\* str.strip()
Strip(s) == RStrip(LStrip(s))

\* Optional[str]
NoneQuery == [some |-> FALSE, val |-> <<>>]
Some(s) == [some |-> TRUE, val |-> s]

\* a blank test that forgets strip(): not query or query == ""
IsBlankNoStrip(q) == ~q.some \/ q.val = <<>>

\* not query or query.strip() == ""
IsBlank(q) == ~q.some \/ q.val = <<>> \/ Strip(q.val) = <<>>

\* a suffix test that forgets the dot
IsPdfNoDot(filename) == EndsWith(Lower(filename), <<"p","d","f">>)

\* file.filename.lower().endswith('.pdf')
IsPdf(filename) == EndsWith(Lower(filename), <<".","p","d","f">>)

\* a path that does not depend on the identifier
FilePathFixed(id) == <<"data/financial_document", ".pdf">>

\* f"data/financial_document_{file_id}.pdf"
FilePath(id) == <<"data/financial_document_", id, ".pdf">>

\* str(uuid.uuid4()): a fresh identifier, rendered as text
Uuid4(n) == ToString(n)

\* -------------------------------------------------------------- inputs
RECURSIVE SeqsUpTo(_, _)
SeqsUpTo(S, n) ==
  IF n = 0 THEN {<<>>}
  ELSE LET shorter == SeqsUpTo(S, n - 1)
       IN  shorter \cup {Append(s, c) : s \in shorter, c \in S}

\* the query form field as the client sends it: absent, or some text
FormAbsent == [present |-> FALSE, val |-> <<>>]
FormText(s) == [present |-> TRUE, val |-> s]

AllQueries ==
  {FormAbsent} \cup {FormText(s) : s \in SeqsUpTo(QueryChars, MaxQueryLen)}

\* the inputs used when several requests run together
FewQueries == {FormText(<<" ">>)}
FewFileNames ==
  { <<"a",".","p","d","f">>,
    <<"r","e","p","o","r","t",".","t","x","t">> }

FileNames ==
  { <<"a",".","p","d","f">>,
    <<"A",".","P","D","F">>,
    <<"r","e","p","o","r","t",".","t","x","t">>,
    <<"p","d","f">> }

\* Form(default="Analyze this financial document for investment insights")
FormDefault(field) ==
  IF field.present THEN Some(field.val) ELSE Some(DefaultQuery)

\* ---------------------------------------------------------- exceptions
HTTPException(code, detail) ==
  [type |-> "HTTPException", status_code |-> code, detail |-> detail]

FileNotFound(msg) ==
  [type |-> "FileNotFoundError", status_code |-> 0, detail |-> msg]

PlainException(msg) ==
  [type |-> "Exception", status_code |-> 0, detail |-> msg]

\* str(e)
Str(e) ==
  IF e.type = "HTTPException"
  THEN <<ToString(e.status_code), ": ">> \o e.detail
  ELSE e.detail

\* the except clauses of analyze_document
HandlerExcept(e) ==
  IF e.type = "FileNotFoundError"
  THEN HTTPException(404, <<"File processing error: ">> \o Str(e))
  ELSE HTTPException(500, <<"Error processing financial document: ">> \o Str(e))

\* the except clause of run_crew
CrewExcept(e) == PlainException(<<"Analysis failed: ">> \o Str(e))

\* an exception handler that labels the error as a server error
http_exception_handler_server(exc) ==
  [error |-> TRUE, status_code |-> exc.status_code, message |-> exc.detail,
   type |-> "Server Error"]

http_exception_handler(exc) ==
  [error |-> TRUE, status_code |-> exc.status_code, message |-> exc.detail,
   type |-> "HTTP Exception"]

OnlyPdfDetail ==
  <<"Only PDF files are supported for financial document analysis">>
EmptyDetail == <<"Uploaded file is empty">>

\* --------------------------------------------------------------- state
VARIABLES
  pc,          \* position of each request's handler
  kind,        \* "analyze", "root" or "health"
  filename,    \* file.filename
  form,        \* the query form field as sent
  file_id,     \* local file_id ("" before line 107)
  file_path,   \* local file_path (<<>> before line 108)
  content,     \* len(content), -1 before the read
  query,       \* local query
  handle,      \* the file object f is open
  crew,        \* "idle", "running", "returned", "raised"
  crewInputs,  \* inputs given to financial_crew.kickoff
  pending,     \* what the try block has decided to return or raise
  response,    \* the body sent to the client
  files,       \* paths that exist under data/
  dataDir,     \* os.path.exists("data")
  loop,        \* request running on the event loop, 0 when it is free
  nextId,      \* number of identifiers uuid4 has produced
  environ,     \* names of the environment variables that are set
  syslog       \* file operations and warnings, by request

vars == <<pc, kind, filename, form, file_id, file_path, content, query,
          handle, crew, crewInputs, pending, response, files, dataDir,
          loop, nextId, environ, syslog>>

locals == <<file_id, file_path, content, query, handle, crew, crewInputs>>

NoPending == [kind |-> "none"]
Return(body) == [kind |-> "return", value |-> body]
Raise(exc) == [kind |-> "raise", exc |-> exc]
NoResponse == [none |-> TRUE]
NoInputs == [query |-> <<>>, file_path |-> <<>>]

Init ==
  /\ pc = [r \in Requests |-> "idle"]
  /\ kind = [r \in Requests |-> "analyze"]
  /\ filename = [r \in Requests |-> <<>>]
  /\ form = [r \in Requests |-> FormAbsent]
  /\ file_id = [r \in Requests |-> ""]
  /\ file_path = [r \in Requests |-> <<>>]
  /\ content = [r \in Requests |-> -1]
  /\ query = [r \in Requests |-> NoneQuery]
  /\ handle = [r \in Requests |-> FALSE]
  /\ crew = [r \in Requests |-> "idle"]
  /\ crewInputs = [r \in Requests |-> NoInputs]
  /\ pending = [r \in Requests |-> NoPending]
  /\ response = [r \in Requests |-> NoResponse]
  /\ files = {}
  /\ dataDir = TRUE
  /\ loop = 0
  /\ nextId = 0
  /\ environ = {"OPENAI_API_KEY", "SERPER_API_KEY"}
  /\ syslog = {}

Log(op, r, path) == [op |-> op, by |-> r, path |-> path]

\* --------------------------------------------------------------- client
\* a client sends request r; requests are numbered in order of arrival
ArriveFrom(r, names, queries) ==
  /\ pc[r] = "idle"
  /\ \A s \in Requests : s < r => pc[s] # "idle"
  /\ \/ \E k \in {"root", "health"} :
          /\ kind' = [kind EXCEPT ![r] = k]
          /\ UNCHANGED <<filename, form>>
     \/ \E name \in names, q \in queries :
          /\ kind' = [kind EXCEPT ![r] = "analyze"]
          /\ filename' = [filename EXCEPT ![r] = name]
          /\ form' = [form EXCEPT ![r] = q]
  /\ pc' = [pc EXCEPT ![r] = "start"]
  /\ UNCHANGED <<locals, pending, response, files, dataDir, loop, nextId,
                 environ, syslog>>

Arrive(r) == ArriveFrom(r, FewFileNames, FewQueries)

\* a client that sends any file name and any query
ArriveAny(r) == ArriveFrom(r, FileNames, AllQueries)

\* ------------------------------------------------------- GET / , /health
Root(r) ==
  /\ pc[r] = "start" /\ kind[r] = "root" /\ loop = 0
  /\ response' = [response EXCEPT ![r] =
        [message |-> "Financial Document Analyzer API is running",
         status |-> "healthy", version |-> "1.0.0"]]
  /\ pc' = [pc EXCEPT ![r] = "done"]
  /\ UNCHANGED <<kind, filename, form, locals, pending, files, dataDir, loop,
                 nextId, environ, syslog>>

HealthCheck(r) ==
  /\ pc[r] = "start" /\ kind[r] = "health" /\ loop = 0
  /\ response' = [response EXCEPT ![r] =
        [status |-> "healthy", data_directory |-> dataDir,
         required_env_vars |->
           [OPENAI_API_KEY |-> "OPENAI_API_KEY" \in environ,
            SERPER_API_KEY |-> "SERPER_API_KEY" \in environ]]]
  /\ pc' = [pc EXCEPT ![r] = "done"]
  /\ UNCHANGED <<kind, filename, form, locals, pending, files, dataDir, loop,
                 nextId, environ, syslog>>

\* -------------------------------------------------------- POST /analyze
\* the try block ends by raising e: the matching except clause decides the
\* HTTPException to raise, and control goes to the finally block
Fail(r, e) ==
  /\ pending' = [pending EXCEPT ![r] = Raise(HandlerExcept(e))]
  /\ pc' = [pc EXCEPT ![r] = "finally"]

\* lines 99-108: the file type check, then the identifier and the path
Validate(r) ==
  /\ pc[r] = "start" /\ kind[r] = "analyze" /\ loop = 0
  /\ IF ~IsPdf(filename[r])
     THEN /\ response' = [response EXCEPT ![r] =
                http_exception_handler(HTTPException(400, OnlyPdfDetail))]
          /\ pc' = [pc EXCEPT ![r] = "done"]
          /\ UNCHANGED <<file_id, file_path, query, nextId, loop>>
     ELSE /\ nextId' = nextId + 1
          /\ file_id' = [file_id EXCEPT ![r] = Uuid4(nextId')]
          /\ file_path' = [file_path EXCEPT ![r] = FilePath(Uuid4(nextId'))]
          /\ query' = [query EXCEPT ![r] = FormDefault(form[r])]
          /\ pc' = [pc EXCEPT ![r] = "makedirs"]
          /\ loop' = r
          /\ UNCHANGED response
  /\ UNCHANGED <<kind, filename, form, content, handle, crew, crewInputs,
                 pending, files, dataDir, environ, syslog>>

\* line 112: os.makedirs("data", exist_ok=True)
Makedirs(r) ==
  /\ pc[r] = "makedirs" /\ loop = r
  /\ dataDir' = TRUE
  /\ pc' = [pc EXCEPT ![r] = "open"]
  /\ UNCHANGED <<kind, filename, form, locals, pending, response, files, loop,
                 nextId, environ, syslog>>

\* lines 116-117: open(file_path, "wb"), then the handler awaits file.read()
Open(r) ==
  /\ pc[r] = "open" /\ loop = r
  /\ IF dataDir
     THEN /\ files' = files \cup {file_path[r]}
          /\ syslog' = syslog \cup {Log("open", r, file_path[r])}
          /\ handle' = [handle EXCEPT ![r] = TRUE]
          /\ pc' = [pc EXCEPT ![r] = "read"]
          /\ loop' = 0
          /\ UNCHANGED pending
     ELSE /\ Fail(r, FileNotFound(
                <<"[Errno 2] No such file or directory: '">>
                   \o file_path[r] \o <<"'">>))
          /\ UNCHANGED <<files, syslog, handle, loop>>
  /\ UNCHANGED <<kind, filename, form, file_id, file_path, content, query,
                 crew, crewInputs, response, dataDir, nextId, environ>>

\* the empty upload leaves the with block without closing the file
ReadKeepsOpen(r) ==
  /\ pc[r] = "read" /\ loop = 0
  /\ loop' = r
  /\ \E n \in ContentSizes :
       /\ content' = [content EXCEPT ![r] = n]
       /\ IF n = 0
          THEN /\ Fail(r, HTTPException(400, EmptyDetail))
               /\ UNCHANGED <<syslog, handle>>
          ELSE /\ syslog' = syslog \cup {Log("write", r, file_path[r])}
               /\ handle' = [handle EXCEPT ![r] = FALSE]
               /\ pc' = [pc EXCEPT ![r] = "clean"]
               /\ UNCHANGED pending
  /\ UNCHANGED <<kind, filename, form, file_id, file_path, query, crew,
                 crewInputs, response, files, dataDir, nextId, environ>>

\* lines 117-120: the read resumes, the empty check, f.write, end of with
Read(r) ==
  /\ pc[r] = "read" /\ loop = 0
  /\ loop' = r
  /\ handle' = [handle EXCEPT ![r] = FALSE]
  /\ \E n \in ContentSizes :
       /\ content' = [content EXCEPT ![r] = n]
       /\ IF n = 0
          THEN /\ Fail(r, HTTPException(400, EmptyDetail))
               /\ UNCHANGED syslog
          ELSE /\ syslog' = syslog \cup {Log("write", r, file_path[r])}
               /\ pc' = [pc EXCEPT ![r] = "clean"]
               /\ UNCHANGED pending
  /\ UNCHANGED <<kind, filename, form, file_id, file_path, query, crew,
                 crewInputs, response, files, dataDir, nextId, environ>>

\* lines 123-126
CleanQuery(r) ==
  /\ pc[r] = "clean" /\ loop = r
  /\ query' = [query EXCEPT ![r] =
        Some(Strip(IF IsBlank(query[r]) THEN DefaultQuery ELSE query[r].val))]
  /\ pc' = [pc EXCEPT ![r] = "run_crew"]
  /\ UNCHANGED <<kind, filename, form, file_id, file_path, content, handle,
                 crew, crewInputs, pending, response, files, dataDir, loop,
                 nextId, environ, syslog>>

\* line 130 and run_crew up to the kickoff call (lines 32-50)
RunCrew(r) ==
  /\ pc[r] = "run_crew" /\ loop = r
  /\ LET q == IF IsBlank(query[r]) THEN DefaultQuery ELSE query[r].val
     IN  IF file_path[r] \notin files
         THEN /\ crew' = [crew EXCEPT ![r] = "raised"]
              /\ Fail(r, CrewExcept(FileNotFound(
                    <<"Financial document not found at: ">> \o file_path[r])))
              /\ UNCHANGED crewInputs
         ELSE /\ crew' = [crew EXCEPT ![r] = "running"]
              /\ crewInputs' = [crewInputs EXCEPT ![r] =
                    [query |-> q, file_path |-> file_path[r]]]
              /\ pc' = [pc EXCEPT ![r] = "kickoff"]
              /\ UNCHANGED pending
  /\ UNCHANGED <<kind, filename, form, file_id, file_path, content, query,
                 handle, response, files, dataDir, loop, nextId, environ,
                 syslog>>

\* lines 50-57 and 132-140: kickoff returns a report or raises
Kickoff(r) ==
  /\ pc[r] = "kickoff" /\ loop = r
  /\ \/ /\ crew' = [crew EXCEPT ![r] = "returned"]
        /\ pending' = [pending EXCEPT ![r] = Return(
              [status |-> "success", query |-> query[r].val,
               analysis |-> <<"report">>, file_processed |-> filename[r],
               file_size |-> content[r], processing_id |-> file_id[r]])]
        /\ pc' = [pc EXCEPT ![r] = "finally"]
     \/ /\ crew' = [crew EXCEPT ![r] = "raised"]
        /\ Fail(r, CrewExcept(PlainException(<<"kickoff failed">>)))
  /\ UNCHANGED <<kind, filename, form, file_id, file_path, content, query,
                 handle, crewInputs, response, files, dataDir, loop, nextId,
                 environ, syslog>>

\* a finally block that cleans up only after a successful analysis
FinallyOnSuccess(r) ==
  /\ pc[r] = "finally" /\ loop = r
  /\ pc' = [pc EXCEPT ![r] =
        IF file_path[r] \in files /\ pending[r].kind = "return"
        THEN "remove" ELSE "respond"]
  /\ UNCHANGED <<kind, filename, form, locals, pending, response, files,
                 dataDir, loop, nextId, environ, syslog>>

\* line 155: if os.path.exists(file_path)
Finally(r) ==
  /\ pc[r] = "finally" /\ loop = r
  /\ pc' = [pc EXCEPT ![r] =
        IF file_path[r] \in files THEN "remove" ELSE "respond"]
  /\ UNCHANGED <<kind, filename, form, locals, pending, response, files,
                 dataDir, loop, nextId, environ, syslog>>

\* a cleanup whose failure replaces the outcome
RemoveEscalates(r) ==
  /\ pc[r] = "remove" /\ loop = r
  /\ \/ /\ file_path[r] \in files
        /\ files' = files \ {file_path[r]}
        /\ syslog' = syslog \cup {Log("remove", r, file_path[r])}
        /\ UNCHANGED pending
     \/ /\ syslog' = syslog \cup {Log("warning", r, file_path[r])}
        /\ pending' = [pending EXCEPT ![r] =
              Raise(HTTPException(500, <<"cleanup failed">>))]
        /\ UNCHANGED files
  /\ pc' = [pc EXCEPT ![r] = "respond"]
  /\ UNCHANGED <<kind, filename, form, locals, response, dataDir, loop,
                 nextId, environ>>

\* lines 156-160: os.remove succeeds, or fails and is logged as a warning
Remove(r) ==
  /\ pc[r] = "remove" /\ loop = r
  /\ \/ /\ file_path[r] \in files
        /\ files' = files \ {file_path[r]}
        /\ syslog' = syslog \cup {Log("remove", r, file_path[r])}
     \/ /\ syslog' = syslog \cup {Log("warning", r, file_path[r])}
        /\ UNCHANGED files
  /\ pc' = [pc EXCEPT ![r] = "respond"]
  /\ UNCHANGED <<kind, filename, form, locals, pending, response, dataDir,
                 loop, nextId, environ>>

\* the return value, or the raised HTTPException through its handler
\* (lines 162-170), goes to the client
Respond(r) ==
  /\ pc[r] = "respond" /\ loop = r
  /\ response' = [response EXCEPT ![r] =
        IF pending[r].kind = "return" THEN pending[r].value
        ELSE http_exception_handler(pending[r].exc)]
  /\ pc' = [pc EXCEPT ![r] = "done"]
  /\ loop' = 0
  /\ UNCHANGED <<kind, filename, form, locals, pending, files, dataDir,
                 nextId, environ, syslog>>

\* ---------------------------------------------------------- environment
\* another process deletes a file under data/
ExternalDelete ==
  /\ \E p \in files : files' = files \ {p}
  /\ UNCHANGED <<pc, kind, filename, form, locals, pending, response, dataDir,
                 loop, nextId, environ, syslog>>

\* another process removes the empty data directory
ExternalRmdir ==
  /\ dataDir /\ files = {}
  /\ dataDir' = FALSE
  /\ UNCHANGED <<pc, kind, filename, form, locals, pending, response, files,
                 loop, nextId, environ, syslog>>

\* every step of request r's handler
Handler(r) ==
  \/ Root(r) \/ HealthCheck(r) \/ Validate(r) \/ Makedirs(r) \/ Open(r)
  \/ Read(r) \/ CleanQuery(r) \/ RunCrew(r) \/ Kickoff(r) \/ Finally(r)
  \/ Remove(r) \/ Respond(r)

Next ==
  \/ \E r \in Requests : Arrive(r)
  \/ \E r \in Requests : Root(r)
  \/ \E r \in Requests : HealthCheck(r)
  \/ \E r \in Requests : Validate(r)
  \/ \E r \in Requests : Makedirs(r)
  \/ \E r \in Requests : Open(r)
  \/ \E r \in Requests : Read(r)
  \/ \E r \in Requests : CleanQuery(r)
  \/ \E r \in Requests : RunCrew(r)
  \/ \E r \in Requests : Kickoff(r)
  \/ \E r \in Requests : Finally(r)
  \/ \E r \in Requests : Remove(r)
  \/ \E r \in Requests : Respond(r)
  \/ ExternalDelete
  \/ ExternalRmdir

Spec == Init /\ [][Next]_vars

\* one request at a time, with every file name and every query
NextOne ==
  \/ ArriveAny(1)
  \/ Root(1)
  \/ HealthCheck(1)
  \/ Validate(1)
  \/ Makedirs(1)
  \/ Open(1)
  \/ Read(1)
  \/ CleanQuery(1)
  \/ RunCrew(1)
  \/ Kickoff(1)
  \/ Finally(1)
  \/ Remove(1)
  \/ Respond(1)
  \/ ExternalDelete
  \/ ExternalRmdir

SpecOne == Init /\ [][NextOne]_vars

\* ---------------------------------------------------------- properties
Done(r) == pc[r] = "done"
Analyze(r) == pc[r] # "idle" /\ kind[r] = "analyze"
PdfName(r) == EndsWith(Lower(filename[r]), <<".","p","d","f">>)
IsError(r) == "error" \in DOMAIN response[r]
IsSuccess(r) == "analysis" \in DOMAIN response[r]
Logged(op, r) == Log(op, r, file_path[r]) \in syslog
NewlyLogged(op, r) ==
  Log(op, r, file_path[r]) \in syslog' /\ Log(op, r, file_path[r]) \notin syslog

\* C1: once a POST /analyze request has completed, the file at its storage
\* path does not exist, unless its os.remove failed (a warning was logged).
C1_CleanupInvariant ==
  \A r \in Requests :
    (Done(r) /\ file_path[r] # <<>> /\ ~Logged("warning", r))
      => file_path[r] \notin files

\* C1 witness: a request that failed after creating its file has completed,
\* its file was removed by the cleanup and is gone.
C1_Witness ==
  \E r \in Requests :
    /\ Done(r) /\ IsError(r)
    /\ Logged("open", r) /\ Logged("remove", r)
    /\ file_path[r] \notin files

\* C2: a zero-byte upload named *.pdf is answered with status code 400.
C2_EmptyUploadIs400 ==
  \A r \in Requests :
    (Done(r) /\ Analyze(r) /\ PdfName(r) /\ content[r] = 0)
      => response[r].status_code = 400

\* C3: when the saved file is missing at the moment run_crew checks for it,
\* the request is answered with status code 404.
C3_MissingDocumentIs404 ==
  \A r \in Requests :
    (Done(r) /\ crew[r] = "raised" /\ crewInputs[r] = NoInputs)
      => response[r].status_code = 404

\* C4: a request whose file name does not end in .pdf (case-insensitively)
\* is answered with status code 400, and it generates no identifier, has no
\* storage path, performs no file operation and never calls the pipeline.
C4_InvalidTypeWritesNothing ==
  \A r \in Requests :
    (Analyze(r) /\ ~PdfName(r)) =>
      /\ pc[r] \in {"start", "done"}
      /\ Done(r) => (IsError(r) /\ response[r].status_code = 400)
      /\ file_id[r] = "" /\ file_path[r] = <<>>
      /\ content[r] = -1 /\ ~handle[r]
      /\ crew[r] = "idle" /\ crewInputs[r] = NoInputs
      /\ nextId = 0 /\ files = {} /\ syslog = {}

\* C4 witness: a request named "pdf" (no dot) has been rejected.
C4_Witness ==
  \E r \in Requests :
    /\ Done(r) /\ Analyze(r) /\ filename[r] = <<"p","d","f">>
    /\ response[r].status_code = 400

\* C5: no two requests have the same storage path, and every open, write
\* and remove on a path is made by the request that owns the path.
C5_PathsAreExclusive ==
  /\ \A r1, r2 \in Requests :
       (r1 # r2 /\ file_path[r1] # <<>> /\ file_path[r2] # <<>>)
         => file_path[r1] # file_path[r2]
  /\ \A e \in syslog : e.path = file_path[e.by]
  /\ \A e1, e2 \in syslog : e1.path = e2.path => e1.by = e2.by

\* C5 witness: one request is suspended with its file open and on disk
\* while another request has already removed its own file.
C5_Witness ==
  \E r1, r2 \in Requests :
    /\ r1 # r2
    /\ pc[r1] = "read" /\ handle[r1] /\ file_path[r1] \in files
    /\ Logged("remove", r2)

AllWhitespace(s) == \A i \in 1..Len(s) : s[i] \in Whitespace

\* t is s without its leading and trailing whitespace
IsTrimOf(t, s) ==
  /\ t # <<>>
  /\ t[1] \notin Whitespace /\ t[Len(t)] \notin Whitespace
  /\ \E i \in 1..Len(s) :
       /\ i + Len(t) - 1 <= Len(s)
       /\ t = SubSeq(s, i, i + Len(t) - 1)
       /\ AllWhitespace(SubSeq(s, 1, i - 1))
       /\ AllWhitespace(SubSeq(s, i + Len(t), Len(s)))

QueryIs(r, q) ==
  /\ query[r] = Some(q)
  /\ crew[r] \in {"running", "returned"} => crewInputs[r].query = q
  /\ (Done(r) /\ IsSuccess(r)) => response[r].query = q

\* C6: once run_crew has been called for a request, the query given to it,
\* the query given to the crew and the query of the success response are
\* the default string when the form field is absent, empty or whitespace,
\* and otherwise the form field without its surrounding whitespace.
C6_QueryDefaulting ==
  \A r \in Requests :
    (Analyze(r) /\ crew[r] # "idle") =>
      IF ~form[r].present \/ AllWhitespace(form[r].val)
      THEN QueryIs(r, DefaultQuery)
      ELSE /\ IsTrimOf(query[r].val, form[r].val)
           /\ QueryIs(r, query[r].val)
           /\ query[r].val # DefaultQuery

\* C6 witness: a whitespace-only query was analysed successfully and the
\* response carries the default query.
C6_Witness ==
  \E r \in Requests :
    /\ Done(r) /\ IsSuccess(r)
    /\ form[r].present /\ Len(form[r].val) > 0 /\ AllWhitespace(form[r].val)
    /\ response[r].query = DefaultQuery

\* C7: a step in which os.remove fails (the warning is logged) leaves the
\* outcome already decided as it is, and the body sent to the client is
\* that outcome.
C7_CleanupFailureKeepsOutcome ==
  [][\A r \in Requests :
       /\ NewlyLogged("warning", r) =>
            (pending[r].kind # "none" /\ pending'[r] = pending[r])
       /\ (pc[r] = "respond" /\ pc'[r] = "done") =>
            /\ pending[r].kind = "return" => response'[r] = pending[r].value
            /\ pending[r].kind = "raise" =>
                 /\ response'[r].status_code = pending[r].exc.status_code
                 /\ response'[r].message = pending[r].exc.detail]_vars

\* C7 witness: the cleanup of a successful analysis failed, the file is
\* still on disk and the client received the success body.
C7_Witness ==
  \E r \in Requests :
    /\ Done(r) /\ IsSuccess(r) /\ Logged("warning", r)
    /\ file_path[r] \in files

\* C8 as stated: the type of the body for a rejected file name differs
\* from the type of the body of every other kind of error.
C8_FileTypeErrorHasOwnType ==
  \A r1, r2 \in Requests :
    ( /\ Done(r1) /\ Analyze(r1) /\ ~PdfName(r1)
      /\ Done(r2) /\ Analyze(r2) /\ PdfName(r2) /\ IsError(r2) )
      => response[r1].type # response[r2].type

\* C8 as amended: the body for a rejected file name has status code 400, the
\* "Only PDF files are supported" message and the type "HTTP Exception";
\* every other error body has the same type and another message.
C8_FileTypeErrorBody ==
  \A r \in Requests :
    (Done(r) /\ Analyze(r)) =>
      /\ ~PdfName(r) =>
           response[r] = [error |-> TRUE, status_code |-> 400,
                          message |-> OnlyPdfDetail, type |-> "HTTP Exception"]
      /\ (PdfName(r) /\ IsError(r)) =>
           /\ response[r].type = "HTTP Exception"
           /\ response[r].message # OnlyPdfDetail

\* C8 witness: a rejected file name and an error of another kind have both
\* been answered.
C8_Witness ==
  \E r1, r2 \in Requests :
    /\ Done(r1) /\ Analyze(r1) /\ ~PdfName(r1)
    /\ Done(r2) /\ Analyze(r2) /\ PdfName(r2) /\ IsError(r2)

\* C9: while one request is inside the crew's kickoff, every other request
\* that has arrived or is waiting to resume can take its next step.
C9_PipelineDoesNotBlock ==
  \A r1, r2 \in Requests :
    (r1 # r2 /\ pc[r1] = "kickoff" /\ pc[r2] \in {"start", "read"})
      => ENABLED Handler(r2)

\* C10: a step in which a request tries to remove its file is taken with
\* the file closed, the upload written if it was not empty, the crew not
\* running, and the outcome decided.
C10_CleanupOrdering ==
  [][\A r \in Requests :
       (NewlyLogged("remove", r) \/ NewlyLogged("warning", r)) =>
         /\ ~handle[r]
         /\ content[r] > 0 => Logged("write", r)
         /\ crew[r] # "running"
         /\ pending[r].kind # "none"]_vars

\* C10 witness: a request whose crew returned has removed its file.
C10_Witness ==
  \E r \in Requests :
    /\ crew[r] = "returned" /\ Logged("write", r) /\ Logged("remove", r)
====
